---------------------------- MODULE Spec2Model ----------------------------
(***************************************************************************)
(* Model of generate_map.py: the Quake 2 BSP to MAP converter,             *)
(* BSP_OT_import_compilable.execute and the helpers it calls.              *)
(*                                                                         *)
(* Numbers.  Lengths are integers counted in fortieths of a map unit       *)
(* (0.125 = 5, 0.25 = 10, 1.0 = 40, 16.0 = 640, 256 = 10240), so that every *)
(* grid size used here and every product with a normal whose components    *)
(* are multiples of 1/5 is an exact integer or an exact fraction over 5.   *)
(* Vectors with components over 5 are written as integer triples.          *)
(* A coordinate is a record [h, s]: the float h * 2^70 + s / 40.  A float  *)
(* of magnitude 2^70 has a unit in the last place far above 512, so a sum  *)
(* with a nonzero h part loses its s part, as float arithmetic does.       *)
(* A distance may also be NaN.                                             *)
(*                                                                         *)
(* Text.  Strings are TLA+ strings; NUL stands for the byte '\x00', which  *)
(* a TLA+ string literal cannot spell.                                     *)
(***************************************************************************)
EXTENDS Integers, Sequences, FiniteSets, TLC

VARIABLES
    file,               \* the bytes of the .bsp file, as laid out by MkFile
    cfg,                \* the operator's properties (grid_snap, ...)
    pc,                 \* position in execute
    result,             \* "none", "FINISHED" or "CANCELLED"
    lumps,              \* the 19 directory entries read
    entities_string,
    planes,
    texinfos,
    brushes,
    brush_sides,
    opened,             \* the output map file has been opened
    out,                \* what has been written to the map file
    brush_idx,          \* brushes processed so far
    valid_brushes,
    skipped_brushes,
    fixed_brushes,
    areaportal_count

vars == << file, cfg, pc, result, lumps, entities_string, planes, texinfos,
           brushes, brush_sides, opened, out, brush_idx, valid_brushes,
           skipped_brushes, fixed_brushes, areaportal_count >>

----------------------------------------------------------------------------
(* Program constants *)

CONTENTS_AREAPORTAL == 32768
\* 0.125, in fortieths
COMPILE_EPSILON == 5
\* scale = 256, in fortieths
scale == 10240
HEADER_SIZE == 8
NUM_LUMPS == 19
LUMP_ENTRY_SIZE == 8
PLANE_SIZE == 20
TEXINFO_SIZE == 76
BRUSH_SIZE == 12
BRUSHSIDE_SIZE == 4
LUMP_ENTITIES == 0
LUMP_PLANES == 1
LUMP_TEXINFO == 5
LUMP_BRUSHES == 14
LUMP_BRUSHSIDES == 15

NUL == "@"

----------------------------------------------------------------------------
(* Arithmetic helpers *)

Min(a, b) == IF a <= b THEN a ELSE b
Max(a, b) == IF a >= b THEN a ELSE b
Abs(a) == IF a < 0 THEN -a ELSE a

\* floor(n / d) for d > 0 and any n (\div of TLA+ already floors)
FloorDiv(n, d) == n \div d

\* Python's round(n / d) for d > 0: to the nearest integer, ties to even
RoundHalfEven(n, d) ==
    LET q == FloorDiv(n, d)
        r == n - q * d
    IN  IF 2 * r < d THEN q
        ELSE IF 2 * r > d THEN q + 1
        ELSE IF q % 2 = 0 THEN q ELSE q + 1

\* Decimal's ROUND_HALF_UP of n / d for d > 0: ties away from zero
RoundHalfUp(n, d) ==
    LET a == Abs(n)
        q == a \div d
        r == a - q * d
        m == IF 2 * r >= d THEN q + 1 ELSE q
    IN  IF n < 0 THEN -m ELSE m

\* the exact square root of a perfect square
ISqrt(x) == CHOOSE k \in 0..x : k * k <= x /\ (k + 1) * (k + 1) > x

----------------------------------------------------------------------------
(* Text helpers: Python's str methods, on TLA+ strings *)

CharAt(s, i) == SubSeq(s, i, i)

\* str.strip() with no argument strips these
Whitespace == {" ", "\t", "\r", "\n", "\f"}

RECURSIVE LStrip(_, _)
LStrip(s, chars) ==
    IF Len(s) > 0 /\ CharAt(s, 1) \in chars
    THEN LStrip(SubSeq(s, 2, Len(s)), chars)
    ELSE s

RECURSIVE RStrip(_, _)
RStrip(s, chars) ==
    IF Len(s) > 0 /\ CharAt(s, Len(s)) \in chars
    THEN RStrip(SubSeq(s, 1, Len(s) - 1), chars)
    ELSE s

\* s.strip(chars)
Strip(s, chars) == RStrip(LStrip(s, chars), chars)

\* s.replace(c, '') for a single character c
RECURSIVE RemoveChar(_, _)
RemoveChar(s, c) ==
    IF Len(s) = 0 THEN s
    ELSE IF CharAt(s, 1) = c
         THEN RemoveChar(SubSeq(s, 2, Len(s)), c)
         ELSE CharAt(s, 1) \o RemoveChar(SubSeq(s, 2, Len(s)), c)

LowerLetters == "abcdefghijklmnopqrstuvwxyz"
UpperLetters == "ABCDEFGHIJKLMNOPQRSTUVWXYZ"

UpperChar(c) ==
    IF \E i \in 1..26 : CharAt(LowerLetters, i) = c
    THEN CharAt(UpperLetters, CHOOSE i \in 1..26 : CharAt(LowerLetters, i) = c)
    ELSE c

\* s.upper()
RECURSIVE Upper(_)
Upper(s) ==
    IF Len(s) = 0 THEN s
    ELSE UpperChar(CharAt(s, 1)) \o Upper(SubSeq(s, 2, Len(s)))

\* s.startswith(p)
StartsWith(s, p) == Len(s) >= Len(p) /\ SubSeq(s, 1, Len(p)) = p

\* needle in s
Contains(s, needle) ==
    \E i \in 1..(Len(s) - Len(needle) + 1) :
        SubSeq(s, i, i + Len(needle) - 1) = needle

\* the index of the first newline of s at or after start, or 0
NextNewline(s, start) ==
    IF \E i \in start..Len(s) : CharAt(s, i) = "\n"
    THEN CHOOSE i \in start..Len(s) :
            /\ CharAt(s, i) = "\n"
            /\ \A j \in start..(i - 1) : CharAt(s, j) # "\n"
    ELSE 0

\* s.split('\n')
RECURSIVE SplitFrom(_, _)
SplitFrom(s, start) ==
    LET nl == NextNewline(s, start)
    IN  IF nl = 0 THEN << SubSeq(s, start, Len(s)) >>
        ELSE << SubSeq(s, start, nl - 1) >> \o SplitFrom(s, nl + 1)

SplitLines(s) == SplitFrom(s, 1)

----------------------------------------------------------------------------
(* fix_texture_name *)

SpecialTextures == {"CLIP", "NODRAW", "SKIP", "HINT", "AREAPORTAL"}

fix_texture_name(name) ==
    IF name = "" THEN "MISSING"
    ELSE LET cleaned == Strip(RemoveChar(name, NUL), Whitespace)
         IN  IF StartsWith(cleaned, "*") THEN cleaned
             ELSE IF Upper(cleaned) \in SpecialTextures THEN Upper(cleaned)
             ELSE cleaned

----------------------------------------------------------------------------
(* Vectors and floats *)

\* a finite float h * 2^70 + s / 40; a sum with a nonzero h part has lost s
Flt(h, s) == [nan |-> FALSE, h |-> h, s |-> IF h # 0 THEN 0 ELSE s]
NaN == [nan |-> TRUE, h |-> 0, s |-> 0]

Pow10(d) == CASE d = 0 -> 1 [] d = 1 -> 10 [] d = 2 -> 100 [] d = 3 -> 1000

\* snap_to_grid(value, grid_size) of the finite float h * 2^70 + (num / den) / 40:
\* round(value / grid_size) * grid_size.  2^70 is a multiple of every grid size
\* in GridSizes, so the h part is returned as it is.
snap_to_grid(h, num, den, grid_size) ==
    Flt(h, RoundHalfEven(num, den * grid_size) * grid_size)

\* round_coordinate(value, decimals) of the value num / den, in thousandths:
\* Decimal(str(value)).quantize(10 ** -decimals, ROUND_HALF_UP)
round_coordinate(num, den, decimals) ==
    RoundHalfUp(num * Pow10(decimals), den) * Pow10(3 - decimals)

\* round_coordinate of a coordinate: the h part is an integer far below the
\* 28 digits of Decimal's precision and stays; the s part is in fortieths
RoundCoord(c, decimals) ==
    [h |-> c.h, m |-> IF c.h # 0 THEN 0 ELSE round_coordinate(c.s, 40, decimals)]

\* cross_product(a, b): the components are over the product of the two
\* denominators
cross_product(a, b) ==
    << a[2] * b[3] - a[3] * b[2],
       a[3] * b[1] - a[1] * b[3],
       a[1] * b[2] - a[2] * b[1] >>

SumSq(v) == v[1] * v[1] + v[2] * v[2] + v[3] * v[3]

\* normalize_vector(vec) of the vector vec / den, as a vector over 5:
\* vec / length if length > 0.001, else (0, 0, 1).  On the planes of this
\* model every length is rational and every quotient exact.
normalize_vector(vec, den) ==
    LET l2 == SumSq(vec)
        len == ISqrt(l2)
    IN  IF l2 > 0 /\ (l2 >= den * den \/ 1000000 * l2 > den * den)
        THEN << (5 * vec[1]) \div len, (5 * vec[2]) \div len, (5 * vec[3]) \div len >>
        ELSE << 0, 0, 5 >>

\* lines 369-377: the plane's unit normal and its two tangents, over 5
Tangent1(normal) ==
    IF 2 * Abs(normal[3]) < 9      \* abs(normal[2]) < 0.9
    THEN normalize_vector(cross_product(normal, << 0, 0, 5 >>), 25)
    ELSE normalize_vector(cross_product(normal, << 5, 0, 0 >>), 25)

Tangent2(normal, tangent1) == normalize_vector(cross_product(normal, tangent1), 25)

\* lines 381-388: center = normal * distance, each coordinate snapped
SnappedCenter(normal, distance, grid) ==
    [i \in 1..3 |->
        snap_to_grid((normal[i] * distance.h) \div 5, normal[i] * distance.s, 5, grid)]

\* lines 391-410: center + sign * tangent * scale, each coordinate snapped
OffsetPoint(center, tangent, sign, grid) ==
    [i \in 1..3 |->
        snap_to_grid(center[i].h, 5 * center[i].s + sign * tangent[i] * scale, 5, grid)]

\* lines 369-410: the three snapped points of a plane; round() of a NaN raises
SnappedPoints(plane, grid) ==
    LET normal == normalize_vector(plane.normal, 5)
        tangent1 == Tangent1(normal)
        tangent2 == Tangent2(normal, tangent1)
        center == SnappedCenter(normal, plane.distance, grid)
    IN  IF plane.distance.nan
        THEN [raised |-> TRUE, pts |-> << >>]
        ELSE [raised |-> FALSE,
              pts |-> << OffsetPoint(center, tangent1, 1, grid),
                         OffsetPoint(center, tangent1, -1, grid),
                         OffsetPoint(center, tangent2, 1, grid) >>]

\* edge.length < COMPILE_EPSILON for the edge from p to q
ShorterThan(p, q, eps) ==
    /\ \A i \in 1..3 : p[i].h = q[i].h
    /\ SumSq([i \in 1..3 |-> q[i].s - p[i].s]) < eps * eps

AlwaysValid(points) == TRUE

\* validate_brush_geometry(points): no edge shorter than COMPILE_EPSILON
validate_brush_geometry(points) ==
    \A i \in 1..3 : \A j \in (i + 1)..3 :
        ~ShorterThan(points[i], points[j], COMPILE_EPSILON)

----------------------------------------------------------------------------
(* The parsed records and the lookups of one brush *)

\* seq[i] of Python, for 0 <= i < len(seq)
At(seq, i) == seq[i + 1]

\* a test for equality where the code tests the bit
HasAreaportalBitEq(contents) == contents = CONTENTS_AREAPORTAL

\* brush.contents & CONTENTS_AREAPORTAL
HasAreaportalBit(contents) == (contents \div CONTENTS_AREAPORTAL) % 2 = 1

\* lines 350-359: the sides of the brush that resolve, in side order; a side
\* whose side index or plane index is out of range adds nothing
RECURSIVE ResolvedSides(_, _, _, _, _)
ResolvedSides(brush, i, sides, pls, texs) ==
    IF i >= brush.num_sides THEN << >>
    ELSE LET side_idx == brush.first_side + i
             rest == ResolvedSides(brush, i + 1, sides, pls, texs)
         IN  IF side_idx < Len(sides) /\ At(sides, side_idx).plane_num < Len(pls)
             THEN << side_idx >> \o rest
             ELSE rest

\* brush_planes
BrushPlanes(brush, sides, pls, texs) ==
    LET r == ResolvedSides(brush, 0, sides, pls, texs)
    IN  [k \in 1..Len(r) |-> At(pls, At(sides, r[k]).plane_num)]

NoTexInfo == [none |-> TRUE]

\* the texture-info list filled for every side whose side index is in range,
\* also when the side's plane index is not
BrushTexInfosUnaligned(brush, sides, pls, texs) ==
    LET idx == { i \in 0..(brush.num_sides - 1) : brush.first_side + i < Len(sides) }
        kth(k) == CHOOSE i \in idx : Cardinality({ j \in idx : j < i }) = k - 1
    IN  [k \in 1..Cardinality(idx) |->
            LET side == At(sides, brush.first_side + kth(k))
            IN  IF side.tex_info < Len(texs)
                THEN [none |-> FALSE, tex |-> At(texs, side.tex_info)]
                ELSE [none |-> TRUE]]

\* brush_texinfos: the texture-info of each resolved side, or None
BrushTexInfos(brush, sides, pls, texs) ==
    LET r == ResolvedSides(brush, 0, sides, pls, texs)
    IN  [k \in 1..Len(r) |->
            IF At(sides, r[k]).tex_info < Len(texs)
            THEN [none |-> FALSE, tex |-> At(texs, At(sides, r[k]).tex_info)]
            ELSE NoTexInfo]

\* lines 420-468: the face line of one plane, from its snapped points
FaceLine(pts, texinfo, decimals) ==
    LET rp(p) == [i \in 1..3 |-> RoundCoord(p[i], decimals)]
        base == [k |-> "face", p1 |-> rp(pts[1]), p2 |-> rp(pts[2]), p3 |-> rp(pts[3])]
    IN  IF ~texinfo.none
        THEN LET tex == texinfo.tex
             IN  base @@ [name |-> fix_texture_name(tex.texture_name),
                          u_axis |-> [i \in 1..3 |-> round_coordinate(tex.u_axis[i], 1000, 3)],
                          v_axis |-> [i \in 1..3 |-> round_coordinate(tex.v_axis[i], 1000, 3)],
                          u_offset |-> round_coordinate(tex.u_offset, 1000, 2),
                          v_offset |-> round_coordinate(tex.v_offset, 1000, 2)]
        ELSE base @@ [name |-> "MISSING",
                      u_axis |-> << 1000, 0, 0 >>, v_axis |-> << 0, -1000, 0 >>,
                      u_offset |-> 0, v_offset |-> 0]

\* lines 362-468: the loop over brush_planes.  status is "ok" when the loop
\* ran to its end, "invalid" when it broke out with brush_valid = False,
\* "error" when a face raised; valid is the last face's validation result.
RECURSIVE FaceLoop(_, _, _, _, _)
FaceLoop(bplanes, btex, i, brush_lines, c) ==
    IF i > Len(bplanes)
    THEN [status |-> "ok", lines |-> brush_lines, valid |-> TRUE]
    ELSE LET sp == SnappedPoints(bplanes[i], c.grid_snap)
         IN  IF sp.raised
             THEN [status |-> "error", lines |-> brush_lines, valid |-> TRUE]
             ELSE LET valid == validate_brush_geometry(sp.pts)
                  IN  IF ~valid /\ c.skip_problem_brushes
                      THEN [status |-> "invalid", lines |-> brush_lines, valid |-> FALSE]
                      ELSE LET line == FaceLine(sp.pts,
                                                IF i <= Len(btex) THEN btex[i] ELSE NoTexInfo,
                                                c.coordinate_decimals)
                               rest == FaceLoop(bplanes, btex, i + 1,
                                                Append(brush_lines, line), c)
                           IN  IF i = Len(bplanes)
                               THEN [rest EXCEPT !.valid = valid]
                               ELSE rest

----------------------------------------------------------------------------
(* The two passes over the entities text *)

StrippedLines(text) ==
    LET raw == SplitLines(text)
    IN  [i \in 1..Len(raw) |-> Strip(raw[i], Whitespace)]

SkipWords == << "_tb_", "wad", "mapversion" >>

\* line 326: any(skip in line for skip in ['_tb_', 'wad', 'mapversion'])
IsProblematic(line) == \E k \in 1..Len(SkipWords) : Contains(line, SkipWords[k])

\* lines 318-327: the worldspawn properties copied to the output
RECURSIVE WorldspawnLoop(_, _, _)
WorldspawnLoop(lines, i, in_worldspawn) ==
    IF i > Len(lines) THEN << >>
    ELSE LET line == lines[i]
         IN  IF Contains(line, "\"classname\" \"worldspawn\"")
             THEN WorldspawnLoop(lines, i + 1, TRUE)
             ELSE IF line = "}" /\ in_worldspawn
             THEN << >>
             ELSE IF in_worldspawn /\ Contains(line, "\"") /\ ~Contains(line, "classname")
                     /\ ~IsProblematic(line)
             THEN << line >> \o WorldspawnLoop(lines, i + 1, in_worldspawn)
             ELSE WorldspawnLoop(lines, i + 1, in_worldspawn)

\* lines 315-327
WorldspawnProps(text) ==
    IF text = "" THEN << >> ELSE WorldspawnLoop(StrippedLines(text), 1, FALSE)

\* a class test that knows worldspawn only
EntityClassWorldspawnOnly(entity_lines, k) ==
    IF \E j \in k..Len(entity_lines) : Contains(entity_lines[j], "\"worldspawn\"")
    THEN "worldspawn" ELSE ""

\* lines 505-511: the class of an entity, from its first classname line
RECURSIVE EntityClass(_, _)
EntityClass(entity_lines, k) ==
    IF k > Len(entity_lines) THEN ""
    ELSE IF Contains(entity_lines[k], "\"classname\"")
         THEN IF Contains(entity_lines[k], "\"func_areaportal\"") THEN "areaportal"
              ELSE IF Contains(entity_lines[k], "\"worldspawn\"") THEN "worldspawn"
              ELSE ""
         ELSE EntityClass(entity_lines, k + 1)

TextItem(kind, line) == [k |-> kind, s |-> line]

\* lines 515-518
EntityBlock(entity_lines) ==
    << TextItem("open", "{") >>
    \o [j \in 1..Len(entity_lines) |-> TextItem("kv", entity_lines[j])]
    \o << TextItem("close", "}") >>

\* lines 496-522: what the pass over the entities writes
RECURSIVE EntityLoop(_, _, _, _)
EntityLoop(lines, i, in_entity, entity_lines) ==
    IF i > Len(lines) THEN << >>
    ELSE LET line == lines[i]
         IN  IF line = "{"
             THEN EntityLoop(lines, i + 1, TRUE, << >>)
             ELSE IF line = "}"
             THEN (IF in_entity /\ entity_lines # << >>
                      /\ EntityClass(entity_lines, 1) \notin {"worldspawn", "areaportal"}
                   THEN EntityBlock(entity_lines)
                   ELSE << >>)
                  \o EntityLoop(lines, i + 1, FALSE, entity_lines)
             ELSE IF in_entity
             THEN EntityLoop(lines, i + 1, TRUE, Append(entity_lines, line))
             ELSE EntityLoop(lines, i + 1, in_entity, entity_lines)

\* lines 490-522
PassthroughEntities(text) ==
    IF text = "" THEN << >> ELSE EntityLoop(StrippedLines(text), 1, FALSE, << >>)

----------------------------------------------------------------------------
(* The input files.  A file is its length, its directory (the 19 entries   *)
(* as stored after the header) and, for each consumed lump, what the bytes *)
(* from the lump's offset to the end of the file decode to.                *)

ConsumedLumps == << LUMP_ENTITIES, LUMP_PLANES, LUMP_TEXINFO, LUMP_BRUSHES, LUMP_BRUSHSIDES >>
RecordLumps == { LUMP_PLANES, LUMP_TEXINFO, LUMP_BRUSHES, LUMP_BRUSHSIDES }

RecordSize(l) ==
    CASE l = LUMP_PLANES -> PLANE_SIZE
      [] l = LUMP_TEXINFO -> TEXINFO_SIZE
      [] l = LUMP_BRUSHES -> BRUSH_SIZE
      [] l = LUMP_BRUSHSIDES -> BRUSHSIDE_SIZE

DirectoryEnd == HEADER_SIZE + NUM_LUMPS * LUMP_ENTRY_SIZE

\* the bytes lump l of content c takes
LumpBytes(c, l) ==
    IF l = LUMP_ENTITIES THEN Len(c.ents) ELSE RecordSize(l) * Len(c.recs[l])

\* the lumps in file order: lump last comes last
LumpOrder(last) == SelectSeq(ConsumedLumps, LAMBDA l : l # last) \o << last >>

RECURSIVE BytesBefore(_, _, _)
BytesBefore(c, order, k) ==
    IF k = 0 THEN 0 ELSE LumpBytes(c, order[k]) + BytesBefore(c, order, k - 1)

TotalBytes(c) == DirectoryEnd + BytesBefore(c, ConsumedLumps, Len(ConsumedLumps))

\* The file that stores content c with lump last at its end, the length field of
\* lump last raised by extra, cut to its first dataLen bytes
MkFile(c, last, extra, dataLen) ==
    LET order == LumpOrder(last)
        pos(l) == CHOOSE k \in 1..Len(order) : order[k] = l
        off(l) == DirectoryEnd + BytesBefore(c, order, pos(l) - 1)
        avail(l) == Max(0, dataLen - off(l))
    IN  [dataLen |-> dataLen,
         dir |-> [i \in 0..(NUM_LUMPS - 1) |->
                    IF \E k \in 1..Len(order) : order[k] = i
                    THEN [offset |-> off(i),
                          length |-> LumpBytes(c, i) + (IF i = last THEN extra ELSE 0)]
                    ELSE [offset |-> 0, length |-> 0]],
         ents |-> SubSeq(c.ents, 1, Min(Len(c.ents), avail(LUMP_ENTITIES))),
         recs |-> [l \in RecordLumps |->
                    SubSeq(c.recs[l], 1,
                           Min(Len(c.recs[l]), avail(l) \div RecordSize(l)))]]

Plane(normal, distance) == [normal |-> normal, distance |-> distance, type |-> 0]
TexInfo(name, u_offset) ==
    [u_axis |-> << 1000, 0, 0 >>, u_offset |-> u_offset,
     v_axis |-> << 0, -1000, 0 >>, v_offset |-> 0,
     flags |-> 0, value |-> 0, texture_name |-> name]
Side(plane_num, tex_info) == [plane_num |-> plane_num, tex_info |-> tex_info]
Brush(first_side, num_sides, contents) ==
    [first_side |-> first_side, num_sides |-> num_sides, contents |-> contents]

\* planes 0-5: the cube of half-width 64; 6: x = 0.3, off every grid; 7: a
\* diagonal plane at distance 5 * 2^70; 8: a zero normal; 9: a tilted plane;
\* 10: a NaN distance
BasePlanes ==
    << Plane(<< 5, 0, 0 >>, Flt(0, 2560)), Plane(<< -5, 0, 0 >>, Flt(0, 2560)),
       Plane(<< 0, 5, 0 >>, Flt(0, 2560)), Plane(<< 0, -5, 0 >>, Flt(0, 2560)),
       Plane(<< 0, 0, 5 >>, Flt(0, 2560)), Plane(<< 0, 0, -5 >>, Flt(0, 2560)),
       Plane(<< 5, 0, 0 >>, Flt(0, 12)),
       Plane(<< 3, 4, 0 >>, Flt(5, 0)),
       Plane(<< 0, 0, 0 >>, Flt(0, 400)),
       Plane(<< 0, 3, 4 >>, Flt(0, 4000)),
       Plane(<< 0, 5, 0 >>, NaN) >>

\* the 32-byte names as stored, without their trailing NUL padding beyond two
BaseTexInfos ==
    << TexInfo("e1u1/wall" \o NUL \o NUL, 125), TexInfo("skip" \o NUL, 0),
       TexInfo("*water", 0), TexInfo(" " \o NUL, 0), TexInfo(NUL \o NUL, 0) >>

\* sides 0-5: the cube (side 3 with a texture-info index out of range);
\* 6: a plane index out of range; 7: the off-grid plane; 8: the plane at 2^70;
\* 9: the NaN plane; 10: the zero normal; 11: the tilted plane; 12, 13: the
\* cube's top and first plane again
BaseSides ==
    << Side(0, 0), Side(1, 1), Side(2, 0), Side(3, 99), Side(4, 2), Side(5, 0),
       Side(99, 0), Side(6, 3), Side(7, 0), Side(10, 1), Side(8, 4), Side(9, 1),
       Side(4, 0), Side(0, 0) >>

BaseEntities ==
    "{\n\"classname\" \"worldspawn\"\n\"message\" \"hi\"\n}\n"
    \o "{\n\"classname\" \"info_player_start\"\n\"origin\" \"0 0 0\"\n}\n" \o NUL

Content(ents, brs) ==
    [ents |-> ents,
     recs |-> [l \in RecordLumps |->
                CASE l = LUMP_PLANES -> BasePlanes
                  [] l = LUMP_TEXINFO -> BaseTexInfos
                  [] l = LUMP_BRUSHES -> brs
                  [] l = LUMP_BRUSHSIDES -> BaseSides]]

(* Bounds of the input families *)

MaxBrushes == 2

\* (first_side, num_sides) of the solid brushes: the whole cube; five sides
\* resolved of six; three of four; a degenerate last face; a NaN first face;
\* sides past the end of the array
SolidWindows == { << 0, 6 >>, << 2, 6 >>, << 3, 4 >>, << 3, 6 >>, << 9, 4 >>, << 10, 6 >> }

BrushKinds ==
    { Brush(w[1], w[2], 1) : w \in SolidWindows }
    \cup { Brush(0, n, c) : n \in {3, 6}, c \in {0, 1, CONTENTS_AREAPORTAL, CONTENTS_AREAPORTAL + 1} }

RECURSIVE SeqsUpTo(_, _)
SeqsUpTo(S, n) ==
    IF n = 0 THEN { << >> }
    ELSE LET shorter == SeqsUpTo(S, n - 1)
         IN  shorter \cup { Append(q, x) : q \in { r \in shorter : Len(r) = n - 1 }, x \in S }

\* grid_snap 0.125, 0.25 (the default) and 16.0; min_edge_length 0.125 (the
\* default) and 1.0; coordinate_decimals 3 (the default) and 0
GridSizes == {5, 10, 640}
Config(grid, skip, min_edge, decimals) ==
    [grid_snap |-> grid, skip_problem_brushes |-> skip,
     min_edge_length |-> min_edge, coordinate_decimals |-> decimals]
DefaultConfig == Config(10, TRUE, 5, 3)
Configs ==
    { Config(g, sk, 5, 3) : g \in GridSizes, sk \in BOOLEAN }
    \cup { Config(10, sk, 40, d) : sk \in BOOLEAN, d \in {0, 3} }

WholeFile(c) == MkFile(c, LUMP_BRUSHSIDES, 0, TotalBytes(c))

\* whole files: every single brush under every configuration, and every
\* brush array under the default configuration and with skip_problem_brushes off
BrushInputs ==
    { [file |-> WholeFile(Content(BaseEntities, << b >>)), cfg |-> c] :
        b \in BrushKinds, c \in Configs }
    \cup { [file |-> WholeFile(Content(BaseEntities, brs)), cfg |-> Config(10, sk, 5, 3)] :
             brs \in SeqsUpTo(BrushKinds, MaxBrushes), sk \in BOOLEAN }

\* a file damaged in its structure: cut short (inside the header, inside the
\* directory, inside its last lump), or with a length field in the directory
\* that is larger than what is left
OneCube == Content(BaseEntities, << Brush(0, 6, 1) >>)
ShapeInputs ==
    { [file |-> MkFile(OneCube, last, extra, len), cfg |-> DefaultConfig] :
        last \in RecordLumps \cup {LUMP_ENTITIES},
        extra \in {0, 1000},
        len \in {4, HEADER_SIZE, 100, 140, DirectoryEnd}
                \cup { TotalBytes(OneCube) - chop : chop \in {0, 3, 30} } }

MaxBlocks == 2

\* entity blocks: worldspawn; worldspawn with a key before its classname and
\* the keys that are not copied; worldspawn with "wad" inside a value; an
\* area portal; a player start; a light with indented lines, a carriage
\* return and a key before its classname; an empty block
EntityBlocks ==
    { "{\n\"classname\" \"worldspawn\"\n\"message\" \"hi\"\n}\n",
      "{\n\"sky\" \"unit1_\"\n\"classname\" \"worldspawn\"\n\"_tb_textures\" \"x\"\n"
         \o "\"wad\" \"base.wad\"\n\"mapversion\" \"220\"\n}\n",
      "{\n\"classname\" \"worldspawn\"\n\"message\" \"no wad here\"\n}\n",
      "{\n\"classname\" \"func_areaportal\"\n\"style\" \"1\"\n}\n",
      "{\n\"classname\" \"info_player_start\"\n\"origin\" \"0 0 0\"\n}\n",
      "{\n \"light\" \"300\"\r\n\t\"classname\" \"light\"\n}\n",
      "{\n}\n" }

RECURSIVE Concat(_)
Concat(q) == IF q = << >> THEN "" ELSE Head(q) \o Concat(Tail(q))

\* whole files with one cube and every entities text of at most MaxBlocks
\* blocks, NUL-terminated
EntityInputs ==
    { [file |-> WholeFile(Content(Concat(bs) \o NUL, << Brush(0, 6, 1) >>)),
       cfg |-> DefaultConfig] :
        bs \in SeqsUpTo(EntityBlocks, MaxBlocks) }

Inputs == BrushInputs \cup ShapeInputs \cup EntityInputs

----------------------------------------------------------------------------
(* execute *)

Init ==
    \E inp \in Inputs :
        /\ file = inp.file
        /\ cfg = inp.cfg
        /\ pc = "start"
        /\ result = "none"
        /\ lumps = << >>
        /\ entities_string = ""
        /\ planes = << >>
        /\ texinfos = << >>
        /\ brushes = << >>
        /\ brush_sides = << >>
        /\ opened = FALSE
        /\ out = << >>
        /\ brush_idx = 0
        /\ valid_brushes = 0
        /\ skipped_brushes = 0
        /\ fixed_brushes = 0
        /\ areaportal_count = 0

parsedVars == << lumps, entities_string, planes, texinfos, brushes, brush_sides >>
counters == << valid_brushes, skipped_brushes, fixed_brushes, areaportal_count >>

\* the size check made only after the map file has been opened
FileTooSmallAfterOpen ==
    /\ pc = "start"
    /\ file.dataLen < HEADER_SIZE
    /\ opened' = TRUE
    /\ pc' = "done"
    /\ result' = "CANCELLED"
    /\ UNCHANGED << file, cfg, parsedVars, out, brush_idx, counters >>

\* lines 190-193: a file shorter than 8 bytes
FileTooSmall ==
    /\ pc = "start"
    /\ file.dataLen < HEADER_SIZE
    /\ pc' = "done"
    /\ result' = "CANCELLED"
    /\ UNCHANGED << file, cfg, parsedVars, opened, out, brush_idx, counters >>

\* lines 203-210: entry i is read if it lies within the file, else it is (0, 0)
RECURSIVE ReadDirectory(_, _, _)
ReadDirectory(f, i, offset) ==
    IF i >= NUM_LUMPS THEN << >>
    ELSE IF offset + LUMP_ENTRY_SIZE <= f.dataLen
         THEN << f.dir[i] >> \o ReadDirectory(f, i + 1, offset + LUMP_ENTRY_SIZE)
         ELSE << [offset |-> 0, length |-> 0] >> \o ReadDirectory(f, i + 1, offset)

\* lines 195-210
ReadLumps ==
    /\ pc = "start"
    /\ file.dataLen >= HEADER_SIZE
    /\ lumps' = ReadDirectory(file, 0, HEADER_SIZE)
    /\ pc' = "entities"
    /\ UNCHANGED << file, cfg, result, entities_string, planes, texinfos, brushes,
                    brush_sides, opened, out, brush_idx, counters >>

\* len(data[offset:offset + length])
SliceLen(f, lump) ==
    Min(f.dataLen, lump.offset + lump.length) - Min(f.dataLen, lump.offset)

\* lines 226-234, 269-277, 282-290: the records of a lump
ParsedRecords(f, dir, l) ==
    IF At(dir, l).length > 0
    THEN SubSeq(f.recs[l], 1, SliceLen(f, At(dir, l)) \div RecordSize(l))
    ELSE << >>

\* lines 220-223
ParseEntities ==
    /\ pc = "entities"
    /\ entities_string' =
          IF At(lumps, LUMP_ENTITIES).length > 0
          THEN Strip(SubSeq(file.ents, 1, SliceLen(file, At(lumps, LUMP_ENTITIES))), {NUL})
          ELSE ""
    /\ pc' = "planes"
    /\ UNCHANGED << file, cfg, result, lumps, planes, texinfos, brushes, brush_sides,
                    opened, out, brush_idx, counters >>

\* lines 226-236
ParsePlanes ==
    /\ pc = "planes"
    /\ planes' = ParsedRecords(file, lumps, LUMP_PLANES)
    /\ pc' = "texinfos"
    /\ UNCHANGED << file, cfg, result, lumps, entities_string, texinfos, brushes,
                    brush_sides, opened, out, brush_idx, counters >>

\* lines 239-266; unpacking 76 bytes cannot fail, the except branch is dead
ParseTexinfos ==
    /\ pc = "texinfos"
    /\ texinfos' =
          LET raw == ParsedRecords(file, lumps, LUMP_TEXINFO)
          IN  [i \in 1..Len(raw) |->
                 [raw[i] EXCEPT !.texture_name = Strip(raw[i].texture_name, {NUL})]]
    /\ pc' = "brushes_lump"
    /\ UNCHANGED << file, cfg, result, lumps, entities_string, planes, brushes,
                    brush_sides, opened, out, brush_idx, counters >>

\* lines 269-279
ParseBrushes ==
    /\ pc = "brushes_lump"
    /\ brushes' = ParsedRecords(file, lumps, LUMP_BRUSHES)
    /\ pc' = "sides_lump"
    /\ UNCHANGED << file, cfg, result, lumps, entities_string, planes, texinfos,
                    brush_sides, opened, out, brush_idx, counters >>

\* lines 282-292
ParseBrushSides ==
    /\ pc = "sides_lump"
    /\ brush_sides' = ParsedRecords(file, lumps, LUMP_BRUSHSIDES)
    /\ pc' = "open"
    /\ UNCHANGED << file, cfg, result, lumps, entities_string, planes, texinfos,
                    brushes, opened, out, brush_idx, counters >>

\* lines 303-312: the map file is opened; the header comments and the head of
\* the worldspawn block are written
OpenMap ==
    /\ pc = "open"
    /\ opened' = TRUE
    /\ out' = << TextItem("comment", "// BSP to MAP - Compilable Version"),
                 TextItem("comment", "// Grid snap"),
                 TextItem("comment", "// Min edge"),
                 TextItem("open", "{"),
                 TextItem("kv", "\"classname\" \"worldspawn\""),
                 TextItem("kv", "\"mapversion\" \"220\"") >>
    /\ pc' = "props"
    /\ UNCHANGED << file, cfg, result, parsedVars, brush_idx, counters >>

\* lines 315-327
WriteWorldspawnProps ==
    /\ pc = "props"
    /\ out' = out \o LET ws == WorldspawnProps(entities_string)
                     IN  [j \in 1..Len(ws) |-> TextItem("kv", ws[j])]
    /\ pc' = "brushes"
    /\ UNCHANGED << file, cfg, result, parsedVars, opened, brush_idx, counters >>

\* the brush the loop of line 330 is at
AtBrush == pc = "brushes" /\ brush_idx < Len(brushes)
brush == brushes[brush_idx + 1]
brush_planes == BrushPlanes(brush, brush_sides, planes, texinfos)
brush_texinfos == BrushTexInfos(brush, brush_sides, planes, texinfos)
Faces == FaceLoop(brush_planes, brush_texinfos, 1, << >>, cfg)

NextBrush ==
    /\ brush_idx' = brush_idx + 1
    /\ UNCHANGED << file, cfg, pc, result, parsedVars, opened >>

\* the side-count test off by one
TooFewSidesOffByOne == brush.num_sides < 3

\* line 332
TooFewSides == brush.num_sides < 4

\* lines 332-334
SkipInvalidBrush ==
    /\ AtBrush
    /\ TooFewSides
    /\ skipped_brushes' = skipped_brushes + 1
    /\ NextBrush
    /\ UNCHANGED << out, valid_brushes, fixed_brushes, areaportal_count >>

\* lines 337-339
SkipEmptyBrush ==
    /\ AtBrush
    /\ ~TooFewSides
    /\ brush.contents = 0
    /\ skipped_brushes' = skipped_brushes + 1
    /\ NextBrush
    /\ UNCHANGED << out, valid_brushes, fixed_brushes, areaportal_count >>

\* lines 342-344
SkipAreaportalBrush ==
    /\ AtBrush
    /\ ~TooFewSides
    /\ brush.contents # 0
    /\ HasAreaportalBit(brush.contents)
    /\ areaportal_count' = areaportal_count + 1
    /\ NextBrush
    /\ UNCHANGED << out, valid_brushes, skipped_brushes, fixed_brushes >>

Retained ==
    /\ AtBrush
    /\ ~TooFewSides
    /\ brush.contents # 0
    /\ ~HasAreaportalBit(brush.contents)

\* line 361: fewer than 4 planes resolved; the if has no else
DropUnresolvedBrush ==
    /\ Retained
    /\ Len(brush_planes) < 4
    /\ NextBrush
    /\ UNCHANGED << out, counters >>

\* lines 471-478
WriteBrush ==
    /\ Retained
    /\ Len(brush_planes) >= 4
    /\ Faces.status = "ok"
    /\ Faces.lines # << >>
    /\ out' = out \o << TextItem("open", "{") >> \o Faces.lines \o << TextItem("close", "}") >>
    /\ valid_brushes' = valid_brushes + 1
    /\ fixed_brushes' = IF ~Faces.valid THEN fixed_brushes + 1 ELSE fixed_brushes
    /\ NextBrush
    /\ UNCHANGED << skipped_brushes, areaportal_count >>

\* lines 414-418, 479-480
RejectBrush ==
    /\ Retained
    /\ Len(brush_planes) >= 4
    /\ Faces.status = "invalid"
    /\ skipped_brushes' = skipped_brushes + 1
    /\ NextBrush
    /\ UNCHANGED << out, valid_brushes, fixed_brushes, areaportal_count >>

\* the failure of a face left to the handler of line 543
BrushErrorAborts ==
    /\ Retained
    /\ Len(brush_planes) >= 4
    /\ Faces.status = "error"
    /\ pc' = "done"
    /\ result' = "CANCELLED"
    /\ UNCHANGED << file, cfg, parsedVars, opened, out, brush_idx, counters >>

\* lines 482-485
BrushError ==
    /\ Retained
    /\ Len(brush_planes) >= 4
    /\ Faces.status = "error"
    /\ skipped_brushes' = skipped_brushes + 1
    /\ NextBrush
    /\ UNCHANGED << out, valid_brushes, fixed_brushes, areaportal_count >>

\* the worldspawn block left open
EndWorldspawnNoClose ==
    /\ pc = "brushes"
    /\ brush_idx = Len(brushes)
    /\ pc' = "entities_out"
    /\ UNCHANGED << file, cfg, result, parsedVars, opened, out, brush_idx, counters >>

\* line 487
EndWorldspawn ==
    /\ pc = "brushes"
    /\ brush_idx = Len(brushes)
    /\ out' = Append(out, TextItem("close", "}"))
    /\ pc' = "entities_out"
    /\ UNCHANGED << file, cfg, result, parsedVars, opened, brush_idx, counters >>

\* lines 490-522
WriteEntities ==
    /\ pc = "entities_out"
    /\ out' = out \o PassthroughEntities(entities_string)
    /\ pc' = "report"
    /\ UNCHANGED << file, cfg, result, parsedVars, opened, brush_idx, counters >>

\* lines 524-541
Finish ==
    /\ pc = "report"
    /\ result' = "FINISHED"
    /\ pc' = "done"
    /\ UNCHANGED << file, cfg, parsedVars, opened, out, brush_idx, counters >>

Next ==
    \/ FileTooSmall
    \/ ReadLumps
    \/ ParseEntities
    \/ ParsePlanes
    \/ ParseTexinfos
    \/ ParseBrushes
    \/ ParseBrushSides
    \/ OpenMap
    \/ WriteWorldspawnProps
    \/ SkipInvalidBrush
    \/ SkipEmptyBrush
    \/ SkipAreaportalBrush
    \/ DropUnresolvedBrush
    \/ WriteBrush
    \/ RejectBrush
    \/ BrushError
    \/ EndWorldspawn
    \/ WriteEntities
    \/ Finish

Spec == Init /\ [][Next]_vars

\* every step of Next moves pc or brush_idx
Advances == pc' # pc \/ brush_idx' # brush_idx

\* execute is one sequential run: it takes its next step until it returns.
\* This is weak fairness of Next, written with the state predicate that
\* ENABLED <<Next>>_vars equals (a step is possible exactly while pc is not
\* "done") and with the steps of Next told by what they all change.
Runs == []<>(pc = "done") \/ []<><<Advances>>_vars

FairSpec == Spec /\ Runs /\ WF_vars(Finish)

----------------------------------------------------------------------------
(* Claims *)

\* the area-portal bit of a content-flags word, read off the word itself
BitAreaportal(contents) == contents % 65536 >= 32768

\* the step that handles the current brush wrote nothing
WroteNothing == out' = out

\* C1, as stated: the step that handles a brush with the area-portal bit set,
\* whatever its side count, writes nothing and adds exactly one to
\* areaportal_count.
C1_AnySideCount ==
    [][(AtBrush /\ BitAreaportal(brush.contents))
         => (WroteNothing /\ areaportal_count' = areaportal_count + 1)]_vars

\* C1, amended: the step that handles a brush with the area-portal bit set
\* writes nothing; it adds exactly one to areaportal_count (and nothing to the
\* other counters) when the brush has at least 4 sides, and exactly one to
\* skipped_brushes (and nothing to areaportal_count) when it has fewer.
C1_Areaportal ==
    [][(AtBrush /\ BitAreaportal(brush.contents))
         => /\ WroteNothing
            /\ valid_brushes' = valid_brushes
            /\ IF brush.num_sides >= 4
               THEN /\ areaportal_count' = areaportal_count + 1
                    /\ skipped_brushes' = skipped_brushes
               ELSE /\ areaportal_count' = areaportal_count
                    /\ skipped_brushes' = skipped_brushes + 1]_vars

\* an area-portal brush of at least 4 sides, with another content bit set too,
\* has just been counted
C1_Witness ==
    /\ pc = "brushes"
    /\ brush_idx >= 1
    /\ brushes[brush_idx].contents = CONTENTS_AREAPORTAL + 1
    /\ brushes[brush_idx].num_sides >= 4
    /\ areaportal_count >= 1
    /\ valid_brushes = 0

\* C2: every brush sub-block written holds exactly num_sides face lines, one
\* per side of the brush, also for sides whose side, plane or texture-info
\* index is out of range.
C2_AllFacesOrNone ==
    [][(AtBrush /\ ~WroteNothing)
         => /\ Len(out') = Len(out) + brush.num_sides + 2
            /\ out'[Len(out) + 1].k = "open"
            /\ \A j \in 1..brush.num_sides : out'[Len(out) + 1 + j].k = "face"
            /\ out'[Len(out')].k = "close"]_vars

\* C6: the step that handles a brush with fewer than 4 sides, or with content
\* flags exactly zero, writes nothing and adds exactly one to skipped_brushes
\* (and nothing to the other counters), whatever the other field holds.
C6_SkippedAlways ==
    [][(AtBrush /\ (brush.num_sides < 4 \/ brush.contents = 0))
         => /\ WroteNothing
            /\ skipped_brushes' = skipped_brushes + 1
            /\ valid_brushes' = valid_brushes
            /\ areaportal_count' = areaportal_count]_vars

\* a brush of 3 sides with the area-portal bit set has just been skipped
C6_Witness ==
    /\ pc = "brushes"
    /\ brush_idx >= 1
    /\ brushes[brush_idx].num_sides = 3
    /\ brushes[brush_idx].contents = CONTENTS_AREAPORTAL
    /\ skipped_brushes >= 1
    /\ areaportal_count = 0

\* the face lines written so far
FaceItems == { j \in 1..Len(out) : out[j].k = "face" }

\* the squared distance, in fortieths, between two written points whose
\* coordinates (thousandths) are multiples of 0.025; far apart when they
\* differ in a 2^70 part
FarApart(p, q) == \E i \in 1..3 : p[i].h # q[i].h
DistSq(p, q) == SumSq([i \in 1..3 |-> (q[i].m - p[i].m) \div 25])

\* the points of face line f are pairwise at least d fortieths apart
EdgesAtLeast(f, d) ==
    \A pq \in { << f.p1, f.p2 >>, << f.p1, f.p3 >>, << f.p2, f.p3 >> } :
        FarApart(pq[1], pq[2]) \/ DistSq(pq[1], pq[2]) >= d * d

Parsed ==
    /\ pc \in {"open", "props", "brushes", "entities_out", "report", "done"}
    /\ lumps # << >>

\* the length field of lump l is larger than the bytes left after its offset
LengthBeyondFile(l) == At(lumps, l).length > file.dataLen - At(lumps, l).offset

ParsedCount(l) ==
    CASE l = LUMP_ENTITIES -> Len(entities_string)
      [] l = LUMP_PLANES -> Len(planes)
      [] l = LUMP_TEXINFO -> Len(texinfos)
      [] l = LUMP_BRUSHES -> Len(brushes)
      [] l = LUMP_BRUSHSIDES -> Len(brush_sides)

\* C4: a consumed lump whose length field is larger than the bytes left in the
\* file after its offset yields nothing, and the conversion does not fail.
C4_OversizeLumpYieldsNothing ==
    Parsed => /\ result # "CANCELLED"
              /\ \A k \in 1..Len(ConsumedLumps) :
                    LengthBeyondFile(ConsumedLumps[k]) => ParsedCount(ConsumedLumps[k]) = 0

\* C5, as stated: a file too small for the header, or that ends before the 19
\* directory entries, is cancelled and no map file is opened.
C5_TruncatedCancelled ==
    file.dataLen < DirectoryEnd
        => /\ ~opened
           /\ out = << >>
           /\ (pc = "done" => result = "CANCELLED")

\* C5, amended: a file shorter than the 8-byte header is cancelled and no map
\* file is opened; a file that holds the header but ends before the 19
\* directory entries is not cancelled: the entries that do not fit are read as
\* (0, 0), and the conversion opens the map file and ends FINISHED.
C5_OnlyHeaderCancelled ==
    /\ file.dataLen < HEADER_SIZE
          => /\ ~opened
             /\ out = << >>
             /\ (pc = "done" => result = "CANCELLED")
    /\ (file.dataLen >= HEADER_SIZE /\ file.dataLen < DirectoryEnd)
          => /\ pc # "start"
                => \A i \in 0..(NUM_LUMPS - 1) :
                      HEADER_SIZE + (i + 1) * LUMP_ENTRY_SIZE > file.dataLen
                         => At(lumps, i) = [offset |-> 0, length |-> 0]
             /\ pc = "done" => (result = "FINISHED" /\ opened /\ out # << >>)

\* a file of fewer than 8 bytes has been cancelled
C5_Witness == file.dataLen < HEADER_SIZE /\ pc = "done" /\ result = "CANCELLED"

\* C7: the name of every texture-info resolves by the stated precedence (empty,
\* all-NUL or "MISSING" to the default "MISSING"; else a leading '*' unchanged;
\* else a reserved token in upper case), and no face line carries an empty name.
C7_NameResolution ==
    /\ \A k \in 1..Len(texinfos) :
          LET name == texinfos[k].texture_name
              r == fix_texture_name(name)
          IN  IF name = "" \/ RemoveChar(name, NUL) = "" \/ name = "MISSING"
              THEN r = "MISSING"
              ELSE IF StartsWith(name, "*") THEN r = name
              ELSE Upper(name) \in SpecialTextures => r = Upper(name)
    /\ \A j \in FaceItems : out[j].name # ""

IsUnitNormal(n) == SumSq(n) = 25

\* |dot(N, p) - D| <= 0.001 for the written point p (thousandths) and the plane
\* N / 5, D (fortieths)
OnPlane(p, plane) ==
    /\ plane.normal[1] * p[1].h + plane.normal[2] * p[2].h + plane.normal[3] * p[3].h
          = 5 * plane.distance.h
    /\ Abs(plane.normal[1] * p[1].m + plane.normal[2] * p[2].m + plane.normal[3] * p[3].m
           - 5 * 25 * plane.distance.s) <= 5

\* C10: the three points written for a plane with a unit normal lie on the
\* plane within 0.001, under every grid size.  (With coordinate_decimals = 3
\* the written coordinates are the snapped ones; the i-th face line of a brush
\* is that of its i-th resolved plane.)
C10_PointsOnPlane ==
    [][(AtBrush /\ ~WroteNothing /\ cfg.coordinate_decimals = 3)
         => \A i \in 1..Len(brush_planes) :
               IsUnitNormal(brush_planes[i].normal)
                  => LET f == out'[Len(out) + 1 + i]
                     IN  /\ OnPlane(f.p1, brush_planes[i])
                         /\ OnPlane(f.p2, brush_planes[i])
                         /\ OnPlane(f.p3, brush_planes[i])]_vars

\* The entity blocks of the source text, read off the text itself.  L is the
\* text's lines and T the same lines without their leading and trailing
\* whitespace; a block runs from a line holding only "{" to the next line
\* holding only "}", and is named by the index of its opening line.
RECURSIVE TrimAll(_)
TrimAll(L) ==
    IF L = << >> THEN << >> ELSE << Strip(Head(L), Whitespace) >> \o TrimAll(Tail(L))

IsBlock(T, a, b) ==
    /\ a < b
    /\ T[a] = "{"
    /\ T[b] = "}"
    /\ \A i \in (a + 1)..(b - 1) : T[i] # "{" /\ T[i] # "}"

IsBlockOpen(T, a) == T[a] = "{" /\ \E b \in (a + 1)..Len(T) : IsBlock(T, a, b)
CloseOf(T, a) == CHOOSE b \in (a + 1)..Len(T) : IsBlock(T, a, b)
BlockLines(L, T, a) == SubSeq(L, a + 1, CloseOf(T, a) - 1)

\* the block's first classname line names the class
IsClass(T, a, class) ==
    LET lines == BlockLines(T, T, a)
        ClassLines == { i \in 1..Len(lines) : Contains(lines[i], "\"classname\"") }
    IN  /\ ClassLines # {}
        /\ Contains(lines[CHOOSE i \in ClassLines : \A j \in ClassLines : i <= j],
                    "\"" \o class \o "\"")

IsPassthrough(T, a) == ~IsClass(T, a, "worldspawn") /\ ~IsClass(T, a, "func_areaportal")

\* the key of a key/value line: the text between its first two quotes
Quotes(line) == { i \in 1..Len(line) : CharAt(line, i) = "\"" }
IsKeyValue(line) == Cardinality(Quotes(line)) >= 2
KeyOf(line) ==
    LET q1 == CHOOSE i \in Quotes(line) : \A j \in Quotes(line) : i <= j
        q2 == CHOOSE i \in Quotes(line) \ {q1} : \A j \in Quotes(line) \ {q1} : i <= j
    IN  SubSeq(line, q1 + 1, q2 - 1)
IsExcludedKey(key) == StartsWith(key, "_tb_") \/ key = "wad" \/ key = "mapversion"

\* a line of the source worldspawn block that is to be copied
IsCopied(line) ==
    /\ IsKeyValue(line)
    /\ KeyOf(line) # "classname"
    /\ ~IsExcludedKey(KeyOf(line))

RECURSIVE CopiedLines(_)
CopiedLines(lines) ==
    IF lines = << >> THEN << >>
    ELSE (IF IsCopied(Head(lines)) THEN << TextItem("kv", Head(lines)) >> ELSE << >>)
         \o CopiedLines(Tail(lines))

\* the lines to copy from the first worldspawn block of the text
WorldspawnCopy(text) ==
    LET T == TrimAll(SplitLines(text))
        WorldspawnOpens == { a \in 1..Len(T) : IsBlockOpen(T, a) /\ IsClass(T, a, "worldspawn") }
    IN  IF WorldspawnOpens = {} THEN << >>
        ELSE CopiedLines(BlockLines(T, T, CHOOSE a \in WorldspawnOpens :
                                                \A b \in WorldspawnOpens : a <= b))

\* C8: the lines copied into the output worldspawn block are exactly the
\* key/value lines of the source worldspawn block, wherever they stand relative
\* to the classname line, whose key is not a _tb_, wad or mapversion key; a
\* line is excluded by its key only, and no line of another block is copied.
C8_WorldspawnKeysCopied ==
    [][pc = "props" => out' = out \o WorldspawnCopy(entities_string)]_vars

\* the passthrough blocks from line a on, in source order; verbatim keeps every
\* block with its lines as they are, otherwise the lines are trimmed and the
\* blocks without lines are left out
RECURSIVE PassthroughFrom(_, _, _, _)
PassthroughFrom(L, T, a, verbatim) ==
    IF a > Len(T) THEN << >>
    ELSE (IF IsBlockOpen(T, a) /\ IsPassthrough(T, a)
             /\ (verbatim \/ CloseOf(T, a) > a + 1)
          THEN LET lines == BlockLines(IF verbatim THEN L ELSE T, T, a)
               IN  << TextItem("open", "{") >>
                   \o [j \in 1..Len(lines) |-> TextItem("kv", lines[j])]
                   \o << TextItem("close", "}") >>
          ELSE << >>)
         \o PassthroughFrom(L, T, a + 1, verbatim)

Passthrough(text, verbatim) ==
    LET L == SplitLines(text)
    IN  PassthroughFrom(L, TrimAll(L), 1, verbatim)

WorldspawnClosed == out # << >> /\ out[Len(out)] = TextItem("close", "}")

PassesFilters ==
    /\ brush.num_sides >= 4
    /\ brush.contents # 0
    /\ ~BitAreaportal(brush.contents)

\* the positions 0..num_sides-1 of the current brush whose side index and
\* plane index are both in range
ResolvingSides ==
    { i \in 0..(brush.num_sides - 1) :
        /\ brush.first_side + i < Len(brush_sides)
        /\ brush_sides[brush.first_side + i + 1].plane_num < Len(planes) }

\* C11: the step that handles a brush which passes the filters but has fewer
\* than 4 resolving sides writes nothing and adds exactly one to
\* skipped_brushes; and when the conversion finishes, valid_brushes +
\* skipped_brushes + areaportal_count is the number of parsed brushes.
C11_UnresolvedCounted ==
    [][/\ (AtBrush /\ PassesFilters /\ Cardinality(ResolvingSides) < 4)
            => (WroteNothing /\ skipped_brushes' = skipped_brushes + 1)
       /\ (pc' = "done" /\ result' = "FINISHED")
            => valid_brushes' + skipped_brushes' + areaportal_count' = Len(brushes')]_vars

\* face i of the current brush raises while its points are computed
FaceRaises(i) == SnappedPoints(brush_planes[i], cfg.grid_snap).raised

\* face j of the current brush is computed and does not end the face loop
FacePasses(j) ==
    LET sp == SnappedPoints(brush_planes[j], cfg.grid_snap)
    IN  ~sp.raised /\ (validate_brush_geometry(sp.pts) \/ ~cfg.skip_problem_brushes)

\* the reconstruction of the current brush reaches a face that raises
FaceFails ==
    /\ PassesFilters
    /\ Len(brush_planes) >= 4
    /\ \E i \in 1..Len(brush_planes) :
          FaceRaises(i) /\ \A j \in 1..(i - 1) : FacePasses(j)

\* C12: the step that handles a brush one of whose faces raises writes nothing
\* and adds exactly one to skipped_brushes; every step of the brush loop moves
\* to the next brush of the array, and the loop is left only after the last
\* brush; and the conversion then eventually ends with FINISHED.
C12_FailureIsOneSkip ==
    /\ [][(AtBrush /\ FaceFails)
            => /\ WroteNothing
               /\ skipped_brushes' = skipped_brushes + 1
               /\ valid_brushes' = valid_brushes
               /\ areaportal_count' = areaportal_count]_vars
    /\ [][AtBrush => (pc' = "brushes" /\ brush_idx' = brush_idx + 1 /\ brushes' = brushes)]_vars
    /\ [][(pc = "brushes" /\ pc' # "brushes") => brush_idx = Len(brushes)]_vars
    /\ (AtBrush /\ FaceFails) ~> (pc = "done" /\ result = "FINISHED")

\* the conversion has finished after a first brush whose first face raised
\* (a NaN plane distance) was skipped and the brush after it was written
C12_Witness ==
    /\ pc = "done"
    /\ result = "FINISHED"
    /\ Len(brushes) = 2
    /\ brushes[1] = Brush(9, 4, 1)
    /\ skipped_brushes = 1
    /\ valid_brushes = 1

\* the nesting depth after each item of the output, from depth d before item j
RECURSIVE DepthsFrom(_, _, _)
DepthsFrom(items, j, d) ==
    IF j > Len(items) THEN << >>
    ELSE LET e == IF items[j].k = "open" THEN d + 1
                  ELSE IF items[j].k = "close" THEN d - 1
                  ELSE d
         IN  << e >> \o DepthsFrom(items, j + 1, e)

\* C13: once the map file is opened, the braces written so far are well
\* nested: the depth after every item is 0, 1 or 2; the first block is the
\* worldspawn block; a block opened at depth 1 is a brush inside the worldspawn
\* block, holds face lines only and is closed at once after them; after the
\* worldspawn block is closed blocks are opened at depth 0 only and hold
\* key/value lines; no other line is a bare brace; the depth is 1 while the
\* worldspawn block is being written and 0 from its close to the end.
C13_BracesWellNested ==
    opened =>
        LET D == DepthsFrom(out, 1, 0)
            Before(j) == IF j = 1 THEN 0 ELSE D[j - 1]
            Closes == { j \in 1..Len(out) : out[j].k = "close" /\ D[j] = 0 }
            WorldEnd == IF Closes = {} THEN Len(out) + 1
                        ELSE CHOOSE j \in Closes : \A i \in Closes : j <= i
        IN  /\ \A j \in 1..Len(out) :
                  /\ D[j] \in 0..2
                  /\ out[j].k = "open" => out[j].s = "{"
                  /\ out[j].k = "close" => out[j].s = "}"
                  /\ out[j].k \in {"kv", "comment"} => out[j].s \notin {"{", "}"}
                  /\ out[j].k = "comment" => Before(j) = 0 /\ j < WorldEnd
                  /\ out[j].k = "kv" => Before(j) = 1
                  /\ out[j].k = "face" => Before(j) = 2
                  /\ Before(j) = 2 => out[j].k \in {"face", "close"}
                  /\ (out[j].k = "open" /\ Before(j) = 1) => j < WorldEnd
                  /\ (out[j].k = "open" /\ Before(j) = 0 /\ j < WorldEnd)
                        => /\ \A i \in 1..(j - 1) : out[i].k = "comment"
                           /\ out[j + 1] = TextItem("kv", "\"classname\" \"worldspawn\"")
            /\ pc \in {"props", "brushes"} => (D[Len(out)] = 1 /\ WorldEnd = Len(out) + 1)
            /\ pc \in {"entities_out", "report", "done"}
                  => (D[Len(out)] = 0 /\ WorldEnd <= Len(out))

\* a finished conversion that skipped a brush, wrote a brush, and passed an
\* entity block through after the worldspawn block
C13_Witness ==
    /\ pc = "done"
    /\ opened
    /\ skipped_brushes >= 1
    /\ valid_brushes >= 1
    /\ out[Len(out)].k = "close"
    /\ \E j \in 1..Len(out) : out[j] = TextItem("kv", "\"classname\" \"info_player_start\"")
    /\ \E j \in 1..Len(out) : out[j].k = "face"

\* the k-th resolving side of the current brush, in side order
KthResolvingSide(k) ==
    brush_sides[brush.first_side + 1
                + CHOOSE i \in ResolvingSides :
                     Cardinality({ j \in ResolvingSides : j < i }) = k - 1]

\* the face line of a brush side: its plane's points and its texture-info, or
\* the MISSING default when the texture-info index is out of range
FaceOfSide(side) ==
    FaceLine(SnappedPoints(planes[side.plane_num + 1], cfg.grid_snap).pts,
             IF side.tex_info < Len(texinfos)
             THEN [none |-> FALSE, tex |-> texinfos[side.tex_info + 1]]
             ELSE [none |-> TRUE],
             cfg.coordinate_decimals)

\* C14: for every brush the resolved planes and the resolved texture-infos are
\* equally many, one per resolving side; and the step that writes a brush
\* writes one face line per resolving side, the k-th from the plane and the
\* texture-info (or the MISSING default) of the k-th resolving side.
C14_PairingAligned ==
    [][AtBrush
         => /\ Len(brush_planes) = Cardinality(ResolvingSides)
            /\ Len(brush_texinfos) = Len(brush_planes)
            /\ ~WroteNothing
                  => /\ Len(out') = Len(out) + Cardinality(ResolvingSides) + 2
                     /\ \A k \in 1..Cardinality(ResolvingSides) :
                           out'[Len(out) + 1 + k] = FaceOfSide(KthResolvingSide(k))]_vars

\* the brush of sides 2..7 has just been written with 5 face lines: its fifth
\* side has no plane, and its second side, whose texture-info index is out of
\* range, got the MISSING default
C14_Witness ==
    /\ pc = "brushes"
    /\ brush_idx >= 1
    /\ brushes[brush_idx] = Brush(2, 6, 1)
    /\ valid_brushes >= 1
    /\ Len(out) >= 7
    /\ out[Len(out)].k = "close"
    /\ out[Len(out) - 6].k = "open"
    /\ out[Len(out) - 4].k = "face"
    /\ out[Len(out) - 4].name = "MISSING"
    /\ out[Len(out) - 1].k = "face"

============================================================================
